---- MODULE Spec2Model ----
(***************************************************************************)
(* A model of src/lint.rs: the `Lints` callbacks object, its               *)
(* `Callbacks::config` implementation (which installs the dependency       *)
(* injector and the combined lint-registration hook in the compiler's      *)
(* `Config`), and `with_lints`, which runs the compiler driver with these  *)
(* callbacks inside `catch_fatal_errors`.                                  *)
(*                                                                         *)
(* Closures are modelled as data (records) together with operators that    *)
(* apply them.  The compiler driver is the environment: it calls           *)
(* `Lints::config`, creates the session (invoking `parse_sess_created`),   *)
(* invokes `register_lints`, emits diagnostics, and ends its run with      *)
(* Ok, Err or a fatal abort at any point after it was started.             *)
(***************************************************************************)
EXTENDS Integers, Sequences, FiniteSets, TLC

(* ------------------------------ bounds -------------------------------- *)

\* Longest argument list handed to with_lints.
MaxArgs == 2

\* Longest tracked_files list handed to with_lints.
MaxTracked == 2

\* Largest number of lints one registration function registers.
MaxLints == 1

\* Largest number of ordinary diagnostics the compiler emits in one run.
MaxDiagnostics == 1

\* Largest number of times the configuration phase is entered (SpecReentry).
MaxConfigCalls == 2

(* ------------------------------ inputs -------------------------------- *)

SeqsUpTo(S, n) ==
    UNION { [1..k -> S] : k \in 0..n }

ArgStrings == {"rustc", "main.rs"}

PathStrings == {"rules.toml", "lints.toml"}

CallerLints == {"no-todo", "custom-1"}

HostLints == {"builtin-1"}

\* The value of an absent Option (None).
None == [kind |-> "none"]

\* A caller's `callback: F` where F: Fn(&mut LintStore): it registers
\* the lints it names, in order.
CallbackInputs ==
    { [kind |-> "callback", lints |-> l] : l \in SeqsUpTo(CallerLints, MaxLints) }

\* What config.register_lints may hold when Lints::config is entered:
\* nothing, or a registration function of the host configuration.
PreviousRegisterLints ==
    {None} \cup { [kind |-> "host", lints |-> l] : l \in SeqsUpTo(HostLints, MaxLints) \ {<<>>} }

\* What config.parse_sess_created may hold when Lints::config is entered:
\* nothing, or a hook of the host configuration recording one file.
PreviousParseSessCreated ==
    {None, [kind |-> "host", path |-> "build.rs"]}

\* The interner's table and the dependency record of a newly created
\* session: the symbols the compiler interned already and the files it
\* recorded already.
InitialSessions ==
    UNION { { [symbols |-> s, file_depinfo |-> d, inserts |-> 0] :
                d \in SUBSET (1..Len(s)) } :
            s \in {<<"main.rs">>, <<"main.rs", "rules.toml">>} }

\* The lint registry as the compiler hands it to register_lints.
InitialLintStores == {<<>>, <<"unused">>}

(* ------------------- Symbol::intern and the injector ------------------ *)

\* Mutant: a new string's symbol is off by one.
SymbolOf_OffByOne(symbols, string) ==
    IF \E i \in 1..Len(symbols) : symbols[i] = string
    THEN CHOOSE i \in 1..Len(symbols) : symbols[i] = string
    ELSE Len(symbols)

\* Symbol::intern(string): the index of the string in the interner's
\* table, which grows by the string when it is not there yet.
SymbolOf(symbols, string) ==
    IF \E i \in 1..Len(symbols) : symbols[i] = string
    THEN CHOOSE i \in 1..Len(symbols) : symbols[i] = string
    ELSE Len(symbols) + 1

Intern(symbols, string) ==
    IF \E i \in 1..Len(symbols) : symbols[i] = string
    THEN symbols
    ELSE Append(symbols, string)

\* The strings a set of symbols stands for.
Strings(symbols, syms) ==
    { symbols[i] : i \in syms \cap (1..Len(symbols)) }

\* The set of elements of a sequence.
Range(s) ==
    { s[i] : i \in 1..Len(s) }

\* file_depinfo.insert(Symbol::intern(tracked_file))
InsertFile(parse_sess, tracked_file) ==
    [symbols |-> Intern(parse_sess.symbols, tracked_file),
     file_depinfo |-> parse_sess.file_depinfo
                        \cup {SymbolOf(parse_sess.symbols, tracked_file)},
     inserts |-> parse_sess.inserts + 1]

\* for tracked_file in tracked_files.iter() { ... }, from index i on.
RECURSIVE InsertFrom(_, _, _)
InsertFrom(tracked_files, i, parse_sess) ==
    IF i > Len(tracked_files)
    THEN parse_sess
    ELSE InsertFrom(tracked_files, i + 1, InsertFile(parse_sess, tracked_files[i]))

\* The loop, left at the first tracked file the record holds already.
RECURSIVE InsertUntilPresent(_, _, _)
InsertUntilPresent(tracked_files, i, parse_sess) ==
    IF i > Len(tracked_files)
    THEN parse_sess
    ELSE IF SymbolOf(parse_sess.symbols, tracked_files[i]) \in parse_sess.file_depinfo
         THEN parse_sess
         ELSE InsertUntilPresent(tracked_files, i + 1,
                                 InsertFile(parse_sess, tracked_files[i]))

\* Mutant: `if !file_depinfo.insert(..) { break; }`.
DepInjector_StopAtPresent(tracked_files, parse_sess) ==
    IF tracked_files = <<>>
    THEN parse_sess
    ELSE InsertUntilPresent(tracked_files, 1, parse_sess)

\* Mutant: the loop starts at the second tracked file.
DepInjector_SkipFirst(tracked_files, parse_sess) ==
    IF tracked_files = <<>>
    THEN parse_sess
    ELSE InsertFrom(tracked_files, 2, parse_sess)

\* Mutant: the record is replaced by the tracked files instead of extended.
DepInjector_Overwrite(tracked_files, parse_sess) ==
    InsertFrom(tracked_files, 1, [parse_sess EXCEPT !.file_depinfo = {}])

\* The closure Lints::config stores in config.parse_sess_created.
DepInjector(tracked_files, parse_sess) ==
    IF tracked_files = <<>>
    THEN parse_sess
    ELSE InsertFrom(tracked_files, 1, parse_sess)

\* The driver's call of config.parse_sess_created, whatever it holds.
InvokeParseSessCreated(hook, parse_sess) ==
    CASE hook.kind = "none" -> parse_sess
      [] hook.kind = "host" -> InsertFile(parse_sess, hook.path)
      [] hook.kind = "inject" -> DepInjector(hook.tracked_files, parse_sess)

(* -------------------- the lint-registration hooks --------------------- *)

\* The registration functions work on reg: reg.lint_store is the LintStore
\* they are handed, reg.calls the log of the invocations made so far.
\* A registration function registers its lints at the end of the store.
CallCallback(callback, reg) ==
    [lint_store |-> reg.lint_store \o callback.lints,
     calls |-> Append(reg.calls, [fn |-> "callback", lints |-> callback.lints])]

CallHost(hook, sess, reg) ==
    [lint_store |-> reg.lint_store \o hook.lints,
     calls |-> Append(reg.calls, [fn |-> "host", lints |-> hook.lints, sess |-> sess])]

\* The closure Lints::config stores in config.register_lints, called with
\* (sess, lint_store): the previous hook if there is one, then the callback.
RECURSIVE InvokeRegisterLints(_, _, _)

\* Mutant: the callback runs before the previous hook.
CombinedHook_CallbackFirst(previous, callback, sess, reg) ==
    IF previous # None
    THEN InvokeRegisterLints(previous, sess, CallCallback(callback, reg))
    ELSE CallCallback(callback, reg)

\* Mutant: the callback's call sits inside the `if let Some(previous)`.
CombinedHook_CallbackInBranch(previous, callback, sess, reg) ==
    IF previous # None
    THEN CallCallback(callback, InvokeRegisterLints(previous, sess, reg))
    ELSE reg

CombinedHook(previous, callback, sess, reg) ==
    CallCallback(callback,
                 IF previous # None
                 THEN InvokeRegisterLints(previous, sess, reg)
                 ELSE reg)

\* The driver's call of config.register_lints, whatever it holds.
InvokeRegisterLints(hook, sess, reg) ==
    CASE hook.kind = "none" -> reg
      [] hook.kind = "host" -> CallHost(hook, sess, reg)
      [] hook.kind = "combined" ->
            CombinedHook(hook.previous, hook.callback, sess, reg)

(* --------------------------- Lints::config ---------------------------- *)

\* Mutant: config itself invokes the callback (on a registry of its own).
LintsConfig_EagerCallback(self, cfg, log) ==
    [config |->
        [parse_sess_created |->
            [kind |-> "inject", tracked_files |-> self.tracked_files],
         register_lints |->
            [kind |-> "combined", previous |-> cfg.register_lints,
             callback |-> self.callback]],
     self |-> self,
     calls |-> CallCallback(self.callback, [lint_store |-> <<>>, calls |-> log]).calls]

\* Mutant: config leaves parse_sess_created as it found it.
LintsConfig_NoInjector(self, cfg, log) ==
    [config |->
        [parse_sess_created |-> cfg.parse_sess_created,
         register_lints |->
            [kind |-> "combined", previous |-> cfg.register_lints,
             callback |-> self.callback]],
     self |-> self,
     calls |-> log]

\* Mutant: an earlier parse_sess_created hook is kept, not replaced.
LintsConfig_KeepsSessionHook(self, cfg, log) ==
    [config |->
        [parse_sess_created |->
            IF cfg.parse_sess_created = None
            THEN [kind |-> "inject", tracked_files |-> self.tracked_files]
            ELSE cfg.parse_sess_created,
         register_lints |->
            [kind |-> "combined", previous |-> cfg.register_lints,
             callback |-> self.callback]],
     self |-> self,
     calls |-> log]

\* Mutant: the tracked files are moved out of self (std::mem::take) into the
\* closure instead of shared with it.
LintsConfig_TakesTrackedFiles(self, cfg, log) ==
    [config |->
        [parse_sess_created |->
            [kind |-> "inject", tracked_files |-> self.tracked_files],
         register_lints |->
            [kind |-> "combined", previous |-> cfg.register_lints,
             callback |-> self.callback]],
     self |-> [self EXCEPT !.tracked_files = <<>>],
     calls |-> log]

\* fn config(&mut self, config: &mut Config): the Config it leaves, self as
\* it leaves it (unchanged: both fields are only cloned), and the log of
\* invocations, to which it adds nothing (it only builds closures).
LintsConfig(self, cfg, log) ==
    LET previous == cfg.register_lints
    IN  [config |->
            [parse_sess_created |->
                [kind |-> "inject", tracked_files |-> self.tracked_files],
             register_lints |->
                [kind |-> "combined", previous |-> previous,
                 callback |-> self.callback]],
         self |-> self,
         calls |-> log]

(* ----------------------------- with_lints ----------------------------- *)

\* Mutant: the driver is handed the arguments after the program name.
RunCompilerNew_SkipProgramName(at_args, callback, tracked_files) ==
    [at_args |-> IF at_args = <<>> THEN <<>> ELSE Tail(at_args),
     callbacks |-> [callback |-> callback, tracked_files |-> tracked_files]]

\* RunCompiler::new(args, &mut Lints { callback, tracked_files })
RunCompilerNew(at_args, callback, tracked_files) ==
    [at_args |-> at_args,
     callbacks |-> [callback |-> callback, tracked_files |-> tracked_files]]

\* Mutant: the two variants are mixed up.
MapUnit_Inverted(run_result) ==
    CASE run_result = "Ok" -> "Err(ErrorGuaranteed)"
      [] run_result = "Err" -> "Ok(())"

\* .map(|_| ()) on the value RunCompiler::run returns.
MapUnit(run_result) ==
    CASE run_result = "Ok" -> "Ok(())"
      [] run_result = "Err" -> "Err(ErrorGuaranteed)"

\* Mutant: a fatal error is caught and dropped.
CatchFatalErrors_Swallow(fatal, run_result) ==
    IF fatal
    THEN [tag |-> "Ok", value |-> "Ok(())"]
    ELSE [tag |-> "Ok", value |-> MapUnit(run_result)]

\* catch_fatal_errors(closure): Err when the closure raised a fatal error,
\* otherwise Ok of the closure's value.
CatchFatalErrors(fatal, run_result) ==
    IF fatal
    THEN [tag |-> "Err", value |-> "ErrorGuaranteed"]
    ELSE [tag |-> "Ok", value |-> MapUnit(run_result)]

\* Mutant: catch_fatal_errors(...).map(|_| ()): the closure's own result is
\* dropped.
WithLintsResult_DropsInner(fatal, run_result) ==
    IF CatchFatalErrors(fatal, run_result).tag = "Err"
    THEN "Err(ErrorGuaranteed)"
    ELSE "Ok(())"

\* catch_fatal_errors(...)? as the value of with_lints.
WithLintsResult(fatal, run_result) ==
    LET caught == CatchFatalErrors(fatal, run_result)
    IN  IF caught.tag = "Err"
        THEN "Err(ErrorGuaranteed)"
        ELSE caught.value

(* ------------------------------- state -------------------------------- *)

VARIABLES
    pc,             \* where the invocation of with_lints is
    args,           \* with_lints' parameter args
    tracked_files,  \* with_lints' parameter tracked_files
    callback,       \* with_lints' parameter callback
    compiler,       \* the RunCompiler built from them (None before)
    host_config,    \* the Config as the driver built it
    config,         \* the Config, as the callbacks changed it
    new_sess,       \* the session as the compiler creates it
    parse_sess,     \* the session's symbols and file_depinfo (None before)
    new_lint_store, \* the registry as the compiler creates it
    lint_store,     \* the registry
    calls,          \* the log of the registration functions invoked
    diagnostics,    \* ordinary diagnostics emitted so far
    run,            \* how RunCompiler::run ended
    result,         \* the value with_lints returned ("none" before)
    config_calls,   \* how many times Lints::config ran
    registered      \* whether the driver invoked config.register_lints

vars ==
    <<pc, args, tracked_files, callback, compiler, host_config, config, new_sess,
      parse_sess, new_lint_store, lint_store, calls, diagnostics, run, result,
      config_calls, registered>>

\* The parameters of with_lints and what the compiler creates on its own:
\* no action changes them.
inputs ==
    <<args, tracked_files, callback, host_config, new_sess, new_lint_store>>

\* RunCompiler::run has not ended.
NotRun == [fatal |-> FALSE, value |-> "none"]

Init ==
    /\ pc = "Entry"
    /\ args \in SeqsUpTo(ArgStrings, MaxArgs)
    /\ tracked_files \in SeqsUpTo(PathStrings, MaxTracked)
    /\ callback \in CallbackInputs
    /\ compiler = None
    /\ host_config \in [parse_sess_created : PreviousParseSessCreated,
                        register_lints : PreviousRegisterLints]
    /\ config = host_config
    /\ new_sess \in InitialSessions
    /\ parse_sess = None
    /\ new_lint_store \in InitialLintStores
    /\ lint_store = new_lint_store
    /\ calls = <<>>
    /\ diagnostics = 0
    /\ run = NotRun
    /\ result = "none"
    /\ config_calls = 0
    /\ registered = FALSE

(* ------------------------------ actions ------------------------------- *)

\* with_lints up to RunCompiler::new(...): the Lints object is built from
\* the parameters and handed to the driver with args.
Construct ==
    /\ pc = "Entry"
    /\ compiler' = RunCompilerNew(args, callback, tracked_files)
    /\ pc' = "Constructed"
    /\ UNCHANGED <<inputs, config, parse_sess, lint_store, calls, diagnostics, run, result, config_calls, registered>>

\* The driver asks the callbacks for the configuration: Lints::config.
Configure ==
    /\ pc = "Constructed"
    /\ LET done == LintsConfig(compiler.callbacks, config, calls)
       IN  /\ config' = done.config
           /\ compiler' = [compiler EXCEPT !.callbacks = done.self]
           /\ calls' = done.calls
    /\ config_calls' = config_calls + 1
    /\ pc' = "Configured"
    /\ UNCHANGED <<inputs, parse_sess, lint_store, diagnostics, run, result, registered>>

\* The configuration phase is entered again on the same Config.
Reconfigure ==
    /\ pc = "Configured"
    /\ config_calls < MaxConfigCalls
    /\ LET done == LintsConfig(compiler.callbacks, config, calls)
       IN  /\ config' = done.config
           /\ compiler' = [compiler EXCEPT !.callbacks = done.self]
           /\ calls' = done.calls
    /\ config_calls' = config_calls + 1
    /\ UNCHANGED <<inputs, pc, parse_sess, lint_store, diagnostics, run, result, registered>>

\* The driver creates the session and invokes config.parse_sess_created on it.
SessionCreated ==
    /\ pc = "Configured"
    /\ parse_sess' = InvokeParseSessCreated(config.parse_sess_created, new_sess)
    /\ pc' = "Running"
    /\ UNCHANGED <<inputs, compiler, config, lint_store, calls, diagnostics, run, result, config_calls, registered>>

\* The driver invokes config.register_lints(sess, lint_store), once.
RegisterLints ==
    /\ pc = "Running"
    /\ ~registered
    /\ LET reg == InvokeRegisterLints(config.register_lints, "sess",
                                      [lint_store |-> lint_store, calls |-> calls])
       IN  lint_store' = reg.lint_store /\ calls' = reg.calls
    /\ registered' = TRUE
    /\ UNCHANGED <<inputs, pc, compiler, config, parse_sess, diagnostics, run, result, config_calls>>

\* The compiler emits an ordinary diagnostic (a lint warning, an error in
\* the analysed program).
EmitDiagnostic ==
    /\ pc = "Running"
    /\ diagnostics < MaxDiagnostics
    /\ diagnostics' = diagnostics + 1
    /\ UNCHANGED <<inputs, pc, compiler, config, parse_sess, lint_store, calls, run, result, config_calls, registered>>

\* RunCompiler::run returns a value: Ok or Err(ErrorGuaranteed).
RunReturns ==
    /\ pc \in {"Constructed", "Configured", "Running"}
    /\ \E r \in {"Ok", "Err"} : run' = [fatal |-> FALSE, value |-> r]
    /\ pc' = "Completed"
    /\ UNCHANGED <<inputs, compiler, config, parse_sess, lint_store, calls, diagnostics, result, config_calls, registered>>

\* RunCompiler::run raises a fatal error instead of returning.
RunAborts ==
    /\ pc \in {"Constructed", "Configured", "Running"}
    /\ run' = [fatal |-> TRUE, value |-> "none"]
    /\ pc' = "FatalAborted"
    /\ UNCHANGED <<inputs, compiler, config, parse_sess, lint_store, calls, diagnostics, result, config_calls, registered>>

\* Mutant: a failed run is started again instead of reported.
Return_Retry ==
    /\ pc \in {"Completed", "FatalAborted"}
    /\ IF run.fatal \/ run.value = "Err"
       THEN pc' = "Constructed" /\ run' = NotRun /\ result' = result
       ELSE pc' = "Returned" /\ run' = run
            /\ result' = WithLintsResult(run.fatal, run.value)
    /\ UNCHANGED <<inputs, compiler, config, parse_sess, lint_store, calls, diagnostics, config_calls, registered>>

\* with_lints returns catch_fatal_errors(...)? to its caller.
Return ==
    /\ pc \in {"Completed", "FatalAborted"}
    /\ result' = WithLintsResult(run.fatal, run.value)
    /\ pc' = "Returned"
    /\ UNCHANGED <<inputs, compiler, config, parse_sess, lint_store, calls, diagnostics, run, config_calls, registered>>

Next ==
    \/ Construct
    \/ Configure
    \/ SessionCreated
    \/ RegisterLints
    \/ EmitDiagnostic
    \/ RunReturns
    \/ RunAborts
    \/ Return

\* The driver as rustc builds it: the configuration phase is entered once.
Spec ==
    Init /\ [][Next]_vars

NextReentry ==
    \/ Next
    \/ Reconfigure

\* A driver that enters the configuration phase again on the same Config.
SpecReentry ==
    Init /\ [][NextReentry]_vars

(* ------------------- the combined registration hook ------------------- *)

\* The previous hook H: what config.register_lints held when Lints::config ran.
PreviousHook ==
    host_config.register_lints

\* How many times the caller's callback was invoked.
CallbackCalls ==
    Cardinality({ i \in DOMAIN calls : calls[i].fn = "callback" })

\* C1: with a pre-existing hook H in config.register_lints, one invocation
\* of the combined hook leaves the registry as H's registrations followed by
\* the callback's, H having been called first, once, with the session the
\* combined hook was called with, and the callback second, once.
C1_PreviousThenCallback ==
    (registered /\ PreviousHook # None) =>
        /\ lint_store = (new_lint_store \o PreviousHook.lints) \o callback.lints
        /\ calls = << [fn |-> "host", lints |-> PreviousHook.lints, sess |-> "sess"],
                      [fn |-> "callback", lints |-> callback.lints] >>

C1_Witness ==
    /\ registered
    /\ PreviousHook # None
    /\ callback.lints # <<>>
    /\ new_lint_store # <<>>

\* C2: the callback is invoked at most once in a run, also when the
\* configuration phase is entered more than once on the same Config.
C2_CallbackAtMostOnce ==
    CallbackCalls <= 1

\* C3: with no pre-existing hook, one invocation of the combined hook leaves
\* the registry as the callback alone leaves it, and calls nothing else.
C3_CallbackAlone ==
    (registered /\ PreviousHook = None) =>
        /\ lint_store = new_lint_store \o callback.lints
        /\ calls = << [fn |-> "callback", lints |-> callback.lints] >>

C3_Witness ==
    /\ registered
    /\ PreviousHook = None
    /\ callback.lints # <<>>
    /\ new_lint_store # <<>>

(* ----------------------- the dependency injector ---------------------- *)

\* The paths the session's dependency record holds.
RecordedFiles ==
    Strings(parse_sess.symbols, parse_sess.file_depinfo)

\* C4: once the session exists, and so after the run, its dependency record
\* holds every path of the tracked files, whatever their order and however
\* many times a path occurs among them.
C4_RecordContainsTracked ==
    parse_sess # None => Range(tracked_files) \subseteq RecordedFiles

C4_Witness ==
    /\ pc = "Returned"
    /\ parse_sess # None
    /\ tracked_files = <<"lints.toml", "lints.toml">>
    /\ ~("lints.toml" \in Strings(new_sess.symbols, new_sess.file_depinfo))

\* C5: with no tracked files, the session-created hook makes no insertion
\* and leaves the dependency record (and the interner) as the compiler
\* created them.
C5_EmptyTrackedNoInsert ==
    (tracked_files = <<>> /\ parse_sess # None) =>
        /\ parse_sess.inserts = 0
        /\ parse_sess.file_depinfo = new_sess.file_depinfo
        /\ parse_sess.symbols = new_sess.symbols

C5_Witness ==
    /\ tracked_files = <<>>
    /\ parse_sess # None
    /\ new_sess.file_depinfo # {}

(* --------------------------- the run result --------------------------- *)

\* C6: after a fatal abort of the compiler's run, with_lints does return,
\* and what it returns is Err.
C6_FatalAbortReturnsErr ==
    run.fatal =>
        /\ pc \in {"FatalAborted", "Returned"}
        /\ pc = "FatalAborted" => ENABLED Return
        /\ pc = "Returned" => result = "Err(ErrorGuaranteed)"

C6_Witness ==
    /\ pc = "Returned"
    /\ run.fatal
    /\ parse_sess # None
    /\ result = "Err(ErrorGuaranteed)"

\* C7 as stated: a run that ends without a fatal abort makes with_lints
\* return Ok(()).
C7_NoFatalMeansOk ==
    (pc = "Returned" /\ ~run.fatal) => result = "Ok(())"

\* C7 as amended: a run that ends without a fatal abort and returns Ok makes
\* with_lints return Ok(()), whatever number of diagnostics was emitted.
C7_RunOkMeansOk ==
    (pc = "Returned" /\ ~run.fatal /\ run.value = "Ok") => result = "Ok(())"

C7_Witness ==
    /\ pc = "Returned"
    /\ ~run.fatal
    /\ run.value = "Ok"
    /\ diagnostics = MaxDiagnostics
    /\ result = "Ok(())"

(* ------------------------ when the callback runs ---------------------- *)

\* C8: the callback is invoked by the combined hook's invocation and by
\* nothing else: until the compiler invokes register_lints the callback was
\* not called and the registry is as the compiler created it, also when
\* the run has ended by then; after it, the callback was called once.
C8_CallbackOnlyInHook ==
    /\ ~registered => (CallbackCalls = 0 /\ lint_store = new_lint_store)
    /\ registered => CallbackCalls = 1

C8_Witness ==
    /\ pc = "Returned"
    /\ run.fatal
    /\ config_calls = 1
    /\ parse_sess # None
    /\ ~registered

\* C9: the driver is handed the argument list of with_lints as it is, and
\* no step changes that list.
C9_ArgsPassThrough ==
    [][args' = args /\ (pc' # "Entry" => compiler'.at_args = args)]_vars

C9_Witness ==
    /\ pc = "Returned"
    /\ Len(args) = MaxArgs
    /\ compiler.at_args = args

(* ------------------------- when hooks are set ------------------------- *)

\* The two hooks of Lints::config are in the Config.
Installed ==
    /\ config.register_lints =
          [kind |-> "combined", previous |-> PreviousHook, callback |-> callback]
    /\ config.parse_sess_created =
          [kind |-> "inject", tracked_files |-> tracked_files]

\* Both hooks are installed by Lints::config and by nothing else, before the
\* session exists; until config has returned and the compiler has gone on,
\* no callback was called and nothing was inserted.
InstalledBeforeRunning ==
    /\ config_calls = 0 => (config = host_config /\ parse_sess = None /\ calls = <<>>)
    /\ config_calls >= 1 => Installed
    /\ pc = "Configured" => (parse_sess = None /\ calls = <<>>)
    /\ (parse_sess # None \/ calls # <<>> \/ pc = "Running") => config_calls >= 1

\* C10 as stated: the above, and every run installs the hooks exactly once.
C10_InstalledExactlyOnce ==
    /\ InstalledBeforeRunning
    /\ pc = "Returned" => config_calls = 1

\* C10 as amended: the above, and a run installs the hooks at most once:
\* once when the compiler got as far as creating its session, not at all
\* when its run ended before it asked for the configuration.
C10_InstalledAtMostOnce ==
    /\ InstalledBeforeRunning
    /\ config_calls <= 1
    /\ (parse_sess # None \/ pc = "Running") => config_calls = 1

C10_Witness ==
    /\ pc = "Running"
    /\ registered
    /\ config_calls = 1
    /\ tracked_files # <<>>
    /\ PreviousHook # None

(* ----------------------- one run, one Run Result ---------------------- *)

\* C11: the run is started once (from the entry only), with_lints returns
\* only after the run has ended (from Completed or FatalAborted), giving
\* its one result then; once the run has ended nothing leads back to an
\* earlier state, the run's outcome stays, and the result, once given, stays.
C11_OneRunOneResult ==
    [][ /\ pc' = "Entry" => pc = "Entry"
        /\ (pc' # pc /\ pc' = "Constructed") => pc = "Entry"
        /\ (pc' # pc /\ pc' = "Returned") =>
              /\ pc \in {"Completed", "FatalAborted"}
              /\ result = "none"
              /\ result' \in {"Ok(())", "Err(ErrorGuaranteed)"}
        /\ pc' # "Returned" => result' = "none"
        /\ pc \in {"Completed", "FatalAborted"} =>
              (pc' \in {pc, "Returned"} /\ run' = run)
        /\ pc = "Returned" => UNCHANGED <<pc, run, result>>
      ]_vars

C11_Witness ==
    /\ pc = "Returned"
    /\ ~run.fatal
    /\ run.value = "Err"
    /\ config_calls = 1
    /\ result = "Err(ErrorGuaranteed)"

(* ------------------- the injector as a set operation ------------------ *)

\* The paths a session's dependency record holds.
Files(sess) ==
    Strings(sess.symbols, sess.file_depinfo)

\* The session-created hook has just run: the session is as the hook left
\* it (no later step changes parse_sess, new_sess or tracked_files).
HookHasRun ==
    pc = "Running" /\ ~registered /\ diagnostics = 0

\* C12: on the record the compiler created, the installed hook leaves the
\* same set of paths for every list of tracked files with the same elements
\* as the one given (in another order, with other repetitions), and run a
\* second time, on the record it left, it leaves that record's paths as
\* they are.
C12_OrderInsensitiveIdempotent ==
    HookHasRun =>
        /\ \A other \in SeqsUpTo(PathStrings, MaxTracked) :
              Range(other) = Range(tracked_files) =>
                 Files(DepInjector(other, new_sess)) = RecordedFiles
        /\ Files(DepInjector(tracked_files, parse_sess)) = RecordedFiles
        /\ DepInjector(tracked_files, parse_sess).file_depinfo
              = parse_sess.file_depinfo

C12_Witness ==
    /\ HookHasRun
    /\ Len(tracked_files) = 2
    /\ tracked_files[1] # tracked_files[2]
    /\ tracked_files[1] \in Files(new_sess)
    /\ ~(tracked_files[2] \in Files(new_sess))

\* C14: the record the hook leaves holds the paths the compiler had
\* recorded and the tracked files, and no other; every symbol recorded
\* before is still recorded and still stands for the same string.
C14_PurelyAdditive ==
    parse_sess # None =>
        /\ RecordedFiles = Files(new_sess) \cup Range(tracked_files)
        /\ new_sess.file_depinfo \subseteq parse_sess.file_depinfo
        /\ SubSeq(parse_sess.symbols, 1, Len(new_sess.symbols)) = new_sess.symbols

C14_Witness ==
    /\ parse_sess # None
    /\ Files(new_sess) # {}
    /\ Range(tracked_files) # {}
    /\ Range(tracked_files) \cap Files(new_sess) = {}
    /\ Cardinality(RecordedFiles) = 3

(* ------------------- what the harness holds, unchanged ---------------- *)

\* C13: from construction on, the Lints object holds the tracked files and
\* the callback with_lints was given; Lints::config leaves them so, and the
\* closures it installs hold the same values, before and after they ran.
C13_CapturedValuesUnchanged ==
    /\ pc # "Entry" =>
          compiler.callbacks =
             [callback |-> callback, tracked_files |-> tracked_files]
    /\ config_calls >= 1 =>
          /\ config.parse_sess_created.tracked_files = tracked_files
          /\ config.register_lints.callback = callback

C13_Witness ==
    /\ pc = "Returned"
    /\ parse_sess # None
    /\ registered
    /\ tracked_files # <<>>
    /\ callback.lints # <<>>
    /\ compiler.callbacks.tracked_files = tracked_files

(* ---------------------- the two hooks, compared ----------------------- *)

\* The hook config.parse_sess_created held when Lints::config ran.
PreviousSessionHook ==
    host_config.parse_sess_created

\* The host's registration function was invoked.
HostRegistered ==
    \E i \in DOMAIN calls : calls[i].fn = "host"

\* C15: an earlier register_lints hook is chained: it runs when the combined
\* hook runs.  An earlier parse_sess_created hook is replaced: after config
\* the Config holds the injector alone, and in the session the file of the
\* earlier hook is not recorded and the insertions are the injector's own.
C15_ChainedVersusOverwritten ==
    /\ (registered /\ PreviousHook # None) => HostRegistered
    /\ config_calls >= 1 =>
          config.parse_sess_created =
             [kind |-> "inject", tracked_files |-> tracked_files]
    /\ (parse_sess # None /\ PreviousSessionHook # None) =>
          /\ ~(PreviousSessionHook.path \in RecordedFiles)
          /\ parse_sess.inserts = Len(tracked_files)

C15_Witness ==
    /\ PreviousSessionHook # None
    /\ PreviousHook # None
    /\ parse_sess # None
    /\ registered
    /\ HostRegistered

(* ------------------------ the result, both ways ----------------------- *)

\* C16: with_lints returns Ok(()) exactly when no fatal error was caught and
\* the driver's run returned Ok; an Err the run returned, without a fatal
\* abort, is returned as Err.
C16_OkIffRunOk ==
    pc = "Returned" =>
        /\ result = "Ok(())" <=> (~run.fatal /\ run.value = "Ok")
        /\ (~run.fatal /\ run.value = "Err") => result = "Err(ErrorGuaranteed)"

C16_Witness ==
    /\ pc = "Returned"
    /\ ~run.fatal
    /\ run.value = "Err"
    /\ result = "Err(ErrorGuaranteed)"
    /\ registered

====
